---------------------------- MODULE Spec2Model ----------------------------
(***************************************************************************)
(* Model of the workflow engine of scenario 5                              *)
(* (src/src/scenarios/scenario5_workflow.py, WorkflowMultiMarketScenario): *)
(* execute -> _execute_parallel_searches -> N x search_with_semaphore /    *)
(* _search_single_market -> _aggregate_results ->                          *)
(* _generate_cross_market_analysis -> AnalysisResponse.                    *)
(*                                                                         *)
(* Everything runs on one asyncio event loop, so each action below is one  *)
(* run of a coroutine between two suspension points.  The blocking         *)
(* responses.create call of a market search runs in an executor thread     *)
(* (run_in_executor); the thread is tracked by `prov`, apart from the      *)
(* task that awaits it, because cancelling the task does not stop it.      *)
(*                                                                         *)
(* Under Spec time is abstract: a timer may fire at any moment at which    *)
(* the code is still waiting for what the timer guards, and the clock      *)
(* stands still.  SpecTimed adds the clock: time passes in ticks of        *)
(* TickSeconds while the loop is idle, and a timer fires when it is due.   *)
(* SpecRounds is the clock with searches that all take the same time,      *)
(* SpecAgents varies the project's agents, SpecFromResults starts from a   *)
(* list of market results, SpecFair and SpecFairSearches add fairness.     *)
(***************************************************************************)
EXTENDS Integers, Sequences, FiniteSets, TLC

(***************************************************************************)
(* Bounds of the model                                                     *)
(***************************************************************************)
\* Longest market list execute is called with.
MaxRegions == 3

\* Slots of the semaphore.  The class attribute MAX_CONCURRENT_SEARCHES is
\* 10 (scenario5_workflow.py:125); the model runs the same code with fewer
\* slots than MaxRegions, so that tasks do queue for a slot.
MAX_CONCURRENT_SEARCHES == 2

\* Seconds in one tick of the clock.
TickSeconds == 30

(***************************************************************************)
(* Program constants (class attributes, scenario5_workflow.py:123-124)     *)
(***************************************************************************)
MARKET_TIMEOUT_SECONDS == 90
OVERALL_TIMEOUT_SECONDS == 300

(***************************************************************************)
(* Time in ticks                                                           *)
(***************************************************************************)
TickMs == TickSeconds * 1000

\* The wait_for timeouts in ticks.
MarketTicks == MARKET_TIMEOUT_SECONDS \div TickSeconds
OverallTicks == OVERALL_TIMEOUT_SECONDS \div TickSeconds

(***************************************************************************)
(* Values                                                                  *)
(***************************************************************************)
None == "<None>"

SUCCESS == "success"
TIMEOUT == "timeout"
ERROR == "error"

MarketCodes == {"en-US", "de-DE"}

\* Citation(url, title), core/models.py:47-53 (offsets default to None).
Citation(url, title) == [url |-> url, title |-> title]

\* What the search agent may answer: output_text and the url annotations
\* found in response.output, in order.
SearchResponses ==
    { [output_text |-> "one source",
       annotations |-> << [url |-> "u1", title |-> "t1"] >>],
      [output_text |-> "two sources",
       annotations |-> << [url |-> "u1", title |-> "t2"],
                          [url |-> "u2", title |-> "t1"],
                          [url |-> "u1", title |-> "t1"] >>] }

\* Milliseconds a time.time() delta measures beyond the whole ticks that
\* have passed.
MeasuredMs == {40}

ProviderErrors == {"provider failed"}
CallbackErrors == {"sink failed"}
AnalysisTexts == {"analysis"}

(***************************************************************************)
(* Sequence helpers                                                        *)
(***************************************************************************)
RECURSIVE SeqsUpTo(_, _)
SeqsUpTo(S, n) ==
    IF n = 0 THEN { << >> }
    ELSE LET shorter == SeqsUpTo(S, n - 1)
         IN  shorter \cup { Append(s, x) : s \in shorter, x \in S }

RECURSIVE Concat(_)
Concat(ss) == IF ss = << >> THEN << >> ELSE Head(ss) \o Concat(Tail(ss))

RECURSIVE Sum(_)
Sum(s) == IF s = << >> THEN 0 ELSE Head(s) + Sum(Tail(s))

(***************************************************************************)
(* State                                                                   *)
(***************************************************************************)
VARIABLES
    markets,          \* execute: the market list searched (after line 164-165)
    sink,             \* progress_callback: "none", or "given" (a call may raise)
    pc,               \* position of execute / _execute_parallel_searches
    ts,               \* state of each search_with_semaphore task
    rs,               \* what each task ended with (result or exception)
    search_exit,      \* how each _search_single_market call left: none/result/exception
    prov,             \* executor thread of each market's responses.create
    sem_value,        \* semaphore._value
    waiters,          \* semaphore._waiters, task indices in arrival order
    must_cancel,      \* tasks with a CancelledError still to be delivered
    completed_count,  \* nonlocal completed_count
    overtaken,        \* some task finished before one requested earlier
    results,          \* processed_results / market_results
    aggregated,       \* AggregatedMarketResults
    synth_calls,      \* times the analysis agent was asked (lines 670-686)
    analysis_prompt,  \* what it was asked: analysis_prompt of lines 631-668
    report,           \* what execute returned or raised
    now,              \* ticks since workflow_start_time (line 167)
    age,              \* ticks since start_time of each _search_single_market call
    waited,           \* ticks each task has spent queued for the semaphore
    requested,        \* execute's arguments: markets, search_config.market
    listing,          \* project_client.agents.list(): "ok", or "fails"
    agent_exists,     \* the project has an agent named SEARCH_AGENT_NAME
    agents_created,   \* create_version calls for the search agent in this run
    search_calls,     \* do_search calls made for each market (line 433)
    notified          \* (current, total) of each "Searched ..." progress call

\* The clock.
clock == << now, age, waited >>

\* What execute is called with and how the agents service lists; no step
\* changes them.
inputs == << requested, listing >>

\* What the searches have called so far.
calls == << agent_exists, agents_created, search_calls >>

vars == << markets, sink, pc, ts, rs, search_exit, prov, sem_value, waiters,
           must_cancel, completed_count, overtaken, results, aggregated,
           synth_calls, analysis_prompt, report, now, age, waited,
           requested, listing, agent_exists, agents_created, search_calls,
           notified >>

Tasks == 1 .. Len(markets)

Terminal == {"done", "failed", "cancelled"}

NoResult == [kind |-> "pending"]
NoAggregate == [kind |-> "none"]
NoReport == [kind |-> "none"]
NoPrompt == [kind |-> "none"]

(***************************************************************************)
(* Result values                                                           *)
(***************************************************************************)
\* error_message of a MarketSearchResult built without one (line 452-458).
DefaultErrorMessage == None

MarketSearchResult(market, status, text, citations, ms, err) ==
    [kind |-> "MarketSearchResult", market |-> market, status |-> status,
     text |-> text, citations |-> citations, execution_time_ms |-> ms,
     error_message |-> err]

RaisedException(msg) == [kind |-> "exception", message |-> msg]

\* _extract_citations: one Citation per annotation with a non-empty url not
\* seen before in this response (seen_urls).
RECURSIVE ExtractFrom(_, _)
ExtractFrom(annotations, seen_urls) ==
    IF annotations = << >> THEN << >>
    ELSE LET a == Head(annotations)
         IN  IF a.url = "" \/ a.url \in seen_urls
             THEN ExtractFrom(Tail(annotations), seen_urls)
             ELSE << Citation(a.url, a.title) >>
                  \o ExtractFrom(Tail(annotations), seen_urls \cup {a.url})

ExtractCitations(response) == ExtractFrom(response.annotations, {})

\* _search_single_market, the three returns.
SuccessResult(market, response, ms) ==
    MarketSearchResult(market, SUCCESS, response.output_text,
                       ExtractCitations(response), ms, DefaultErrorMessage)

MarketTimeoutMessage == "Search timed out after 90s"

\* (Variant that keeps a partial text.)
TimeoutResultPartial(market, ms) ==
    MarketSearchResult(market, TIMEOUT, "partial", << >>, ms, MarketTimeoutMessage)

TimeoutResult(market, ms) ==
    MarketSearchResult(market, TIMEOUT, "", << >>, ms, MarketTimeoutMessage)

ErrorResult(market, msg, ms) ==
    MarketSearchResult(market, ERROR, "", << >>, ms, msg)

\* _execute_parallel_searches, except asyncio.TimeoutError.
OverallTimeoutMessage == "Overall workflow timeout exceeded"

OverallTimeoutResult(market) ==
    MarketSearchResult(market, TIMEOUT, "", << >>,
                       OVERALL_TIMEOUT_SECONDS * 1000, OverallTimeoutMessage)

OverallTimeoutResults == [i \in Tasks |-> OverallTimeoutResult(markets[i])]

\* _execute_parallel_searches, "Process results".
ProcessResult(market, result) ==
    IF result.kind = "exception"
    THEN MarketSearchResult(market, ERROR, "", << >>, 0, result.message)
    ELSE IF result.kind = "MarketSearchResult"
         THEN result
         ELSE MarketSearchResult(market, ERROR, "", << >>, 0,
                                 "Unexpected result type")

\* (Variant that keeps one result per market code, the first one.)
ProcessResultsPerCode(raw) ==
    LET firsts == SelectSeq([i \in 1 .. Len(raw) |-> i],
                            LAMBDA i : \A j \in 1 .. (i - 1) : markets[j] # markets[i])
    IN  [k \in 1 .. Len(firsts) |->
            ProcessResult(markets[firsts[k]], raw[firsts[k]])]

ProcessResults(raw) == [i \in 1 .. Len(raw) |-> ProcessResult(markets[i], raw[i])]

\* (Variant that lists the successful results first.)
GatherResultsSuccessFirst ==
    LET inOrder == [i \in Tasks |-> rs[i]]
        good(r) == r.kind = "MarketSearchResult" /\ r.status = SUCCESS
        bad(r) == ~good(r)
    IN  SelectSeq(inOrder, good) \o SelectSeq(inOrder, bad)

\* asyncio.gather(*tasks, return_exceptions=True): one entry per task, in
\* the order the tasks were passed.
GatherResults == [i \in Tasks |-> rs[i]]

(***************************************************************************)
(* _aggregate_results                                                      *)
(***************************************************************************)
IsSuccess(r) == r.status = SUCCESS

\* (Variant of IsNotSuccess that leaves the timeouts out.)
IsError(r) == r.status = ERROR

IsNotSuccess(r) == r.status # SUCCESS

MarketsOf(rsq) == [k \in 1 .. Len(rsq) |-> rsq[k].market]
CitationsOf(rsq) == [k \in 1 .. Len(rsq) |-> rsq[k].citations]
TimesOf(rsq) == [k \in 1 .. Len(rsq) |-> rsq[k].execution_time_ms]

\* (Variant that lists the successful results last first.)
SuccessfulReversed(market_results) ==
    LET good == SelectSeq(market_results, IsSuccess)
    IN  [k \in 1 .. Len(good) |-> good[Len(good) + 1 - k]]

Successful(market_results) == SelectSeq(market_results, IsSuccess)
Failed(market_results) == SelectSeq(market_results, IsNotSuccess)

AllCitations(market_results) == Concat(CitationsOf(Successful(market_results)))

AggregateResults(market_results) ==
    [kind |-> "AggregatedMarketResults",
     successful_markets |-> MarketsOf(Successful(market_results)),
     failed_markets |-> MarketsOf(Failed(market_results)),
     results |-> market_results,
     total_citations |-> AllCitations(market_results),
     total_execution_time_ms |-> Sum(TimesOf(market_results))]

(***************************************************************************)
(* execute: the AnalysisResponse returned                                  *)
(***************************************************************************)
\* (Variant that reports the error of failed searches only as a flag.)
MarketResultEntryFlag(r) ==
    [market |-> r.market, status |-> r.status,
     execution_time_ms |-> r.execution_time_ms,
     citation_count |-> Len(r.citations),
     error |-> IF r.error_message = None THEN None ELSE "failed"]

\* One entry of WorkflowExecutionMetadata.market_results, lines 251-259.
MarketResultEntry(r) ==
    [market |-> r.market, status |-> r.status,
     execution_time_ms |-> r.execution_time_ms,
     citation_count |-> Len(r.citations), error |-> r.error_message]

BuildResponse(text, agg, market_results, total_time_ms) ==
    [kind |-> "AnalysisResponse",
     text |-> text,
     citations |-> agg.total_citations,
     total_markets |-> Len(markets),
     successful_count |-> Len(agg.successful_markets),
     failed_count |-> Len(agg.failed_markets),
     total_execution_time_ms |-> total_time_ms,
     market_results |-> [k \in 1 .. Len(market_results) |->
                            MarketResultEntry(market_results[k])],
     successful_markets |-> agg.successful_markets,
     failed_markets |-> agg.failed_markets]

WorkflowError(msg) == [kind |-> "error", message |-> msg]

(***************************************************************************)
(* _generate_cross_market_analysis: the prompt                             *)
(***************************************************************************)
\* result.status.value.upper()
Upper(status) ==
    CASE status = SUCCESS -> "SUCCESS"
      [] status = TIMEOUT -> "TIMEOUT"
      [] status = ERROR -> "ERROR"

\* result.error_message or 'Unknown error'
OrUnknownError(error_message) ==
    IF error_message = None \/ error_message = "" THEN "Unknown error"
    ELSE error_message

\* ', '.join(markets) or 'None'
JoinedOrNone(names) == IF names = << >> THEN << "None" >> ELSE names

\* One element of context_parts, by the fields the f-string fills in:
\* "### {market} - SUCCESS ({n} sources found)", execution time and
\* findings for a successful result; "### {market} - {STATUS}", status,
\* error, execution time and the no-data line for any other.
ContextPart(result) ==
    IF result.status = SUCCESS
    THEN [market |-> result.market, label |-> "SUCCESS",
          sources_found |-> Len(result.citations),
          status |-> None, error |-> None,
          execution_time_ms |-> result.execution_time_ms,
          findings |-> result.text]
    ELSE [market |-> result.market, label |-> Upper(result.status),
          sources_found |-> -1,
          status |-> result.status,
          error |-> OrUnknownError(result.error_message),
          execution_time_ms |-> result.execution_time_ms,
          findings |-> "*No data available for this market.*"]

\* (Variant that tells the analysis agent of the successful markets only.)
BuildMarketContextOfSuccesses(agg) ==
    LET good == SelectSeq(agg.results, IsSuccess)
    IN  [k \in 1 .. Len(good) |-> ContextPart(good[k])]

\* _build_market_context: the parts in the order of aggregated.results
\* (joined by newlines).
BuildMarketContext(agg) ==
    [k \in 1 .. Len(agg.results) |-> ContextPart(agg.results[k])]

\* analysis_prompt, lines 631-668: the summary lines and the context.
AnalysisPrompt(agg) ==
    [kind |-> "prompt",
     successful |-> << Len(agg.successful_markets),
                       JoinedOrNone(agg.successful_markets) >>,
     failed |-> << Len(agg.failed_markets), JoinedOrNone(agg.failed_markets) >>,
     total_citations_found |-> Len(agg.total_citations),
     market_context |-> BuildMarketContext(agg)]

(***************************************************************************)
(* asyncio.Semaphore (semaphore = asyncio.Semaphore(...), async with)      *)
(***************************************************************************)
\* The future of a waiter is cancelled when the waiting task is.
WaiterCancelled(t, j) == t[j] = "waiting" /\ j \in must_cancel

\* (Variant: a semaphore that lets one task in at a time.)
LockedWhileSearching == \E i \in Tasks : ts[i] = "searching"

\* (Variant: a semaphore that never blocks.)
LockedNever == FALSE

\* Semaphore.locked(): no free slot, or a waiter that was not cancelled.
Locked ==
    \/ sem_value = 0
    \/ \E k \in 1 .. Len(waiters) : ~WaiterCancelled(ts, waiters[k])

\* Semaphore._wake_up_next: the first waiter whose future is not done
\* (neither woken before nor cancelled), 0 when there is none.
NextWaiter(t) ==
    LET live == { k \in 1 .. Len(waiters) :
                    t[waiters[k]] = "waiting" /\ ~WaiterCancelled(t, waiters[k]) }
    IN  IF live = {} THEN 0
        ELSE waiters[CHOOSE k \in live : \A j \in live : k <= j]

\* (Variant: the slot of a search that ended in Timeout or Error is kept.)
ReleaseByUnlessFailed(i, to) ==
    LET t == [ts EXCEPT ![i] = to]
        w == NextWaiter(t)
    IN  IF rs'[i].kind = "MarketSearchResult" /\ rs'[i].status # SUCCESS
        THEN /\ sem_value' = sem_value
             /\ ts' = t
        ELSE IF w = 0
             THEN /\ sem_value' = sem_value + 1
                  /\ ts' = t
             ELSE /\ sem_value' = sem_value
                  /\ ts' = [t EXCEPT ![w] = "woken"]

\* Semaphore.release() as task i leaves `async with semaphore` in state
\* `to`: the counter goes up by one, and the slot is handed at once to the
\* next waiter if there is one.
ReleaseBy(i, to) ==
    LET t == [ts EXCEPT ![i] = to]
        w == NextWaiter(t)
    IN  IF w = 0
        THEN /\ sem_value' = sem_value + 1
             /\ ts' = t
        ELSE /\ sem_value' = sem_value
             /\ ts' = [t EXCEPT ![w] = "woken"]

RemoveWaiter(i) == SelectSeq(waiters, LAMBDA j : j # i)

(***************************************************************************)
(* progress_callback                                                       *)
(***************************************************************************)
\* The messages a call of the callback may end with: None for a normal
\* return (or no callback at all), otherwise the exception it raised.
CallbackOutcomes ==
    IF sink = "given" THEN {None} \cup CallbackErrors ELSE {None}

\* (Variant: the counter is passed before it is incremented.)
NotifyStale(count) ==
    IF sink = "given" THEN Append(notified, << count - 1, Len(markets) >>)
    ELSE notified

\* Lines 319-320: the callback, when there is one, is called with the count
\* just incremented and len(markets).
Notify(count) ==
    IF sink = "given" THEN Append(notified, << count, Len(markets) >>)
    ELSE notified

(***************************************************************************)
(* do_search, up to the await of run_in_executor                           *)
(***************************************************************************)
\* (Variant: the lookup never finds the agent.)
AgentListedNever == FALSE

\* Lines 494-501 of _get_or_create_search_agent: the agents are listed and
\* one of them has the name SEARCH_AGENT_NAME.  A list that raises is
\* logged and counts as "not found".
AgentListed == listing = "ok" /\ agent_exists

\* Line 433 calls do_search for markets[i].  Lines 397-411 run without a
\* suspension point: the clients, then _get_or_create_search_agent, which
\* creates the agent (create_version, line 529) unless the list showed it,
\* then responses.create is handed to the executor.
BeginSearch(i) ==
    /\ search_calls' = [search_calls EXCEPT ![i] = @ + 1]
    /\ agents_created' = IF AgentListed THEN agents_created
                         ELSE agents_created + 1
    /\ agent_exists' = TRUE
    /\ prov' = [prov EXCEPT ![i] = "running"]

(***************************************************************************)
(* Initial state: execute is called                                        *)
(***************************************************************************)
\* request.search_config.market values tried when no market list is given.
ConfiguredMarkets == {None, "", "de-DE"}

\* The arguments of execute.  `markets` is None (passed is FALSE), an empty
\* list or a list of market codes; search_config.market is read only when
\* the list is missing or empty (line 165).
Requests ==
    { [passed |-> TRUE, markets |-> m, market |-> None] :
        m \in SeqsUpTo(MarketCodes, MaxRegions) \ { << >> } }
    \cup { [passed |-> p, markets |-> << >>, market |-> c] :
             p \in BOOLEAN, c \in ConfiguredMarkets }

\* (Variant: only None is replaced.)
OrEnUSIfNone(x) == IF x = None THEN "en-US" ELSE x

\* Python's `x or "en-US"`: None and "" are false.
OrEnUS(x) == IF x = None \/ x = "" THEN "en-US" ELSE x

\* Lines 164-165: `if not markets: markets = [search_config.market or "en-US"]`.
DefaultedMarkets(req) ==
    IF ~req.passed \/ req.markets = << >>
    THEN << OrEnUS(req.market) >>
    ELSE req.markets

\* The state of a run that has not dispatched anything yet.
FreshRun ==
    /\ pc = "start"
    /\ ts = [i \in Tasks |-> "created"]
    /\ rs = [i \in Tasks |-> NoResult]
    /\ search_exit = [i \in Tasks |-> "none"]
    /\ prov = [i \in Tasks |-> "idle"]
    /\ sem_value = MAX_CONCURRENT_SEARCHES
    /\ waiters = << >>
    /\ must_cancel = {}
    /\ completed_count = 0
    /\ overtaken = FALSE
    /\ results = << >>
    /\ aggregated = NoAggregate
    /\ synth_calls = 0
    /\ analysis_prompt = NoPrompt
    /\ report = NoReport
    /\ now = 0
    /\ age = [i \in Tasks |-> 0]
    /\ waited = [i \in Tasks |-> 0]
    /\ agents_created = 0
    /\ search_calls = [i \in Tasks |-> 0]
    /\ notified = << >>

\* execute is called with any of the requests, with or without a progress
\* callback, in a project that lists its agents and has no search agent
\* yet.
Init ==
    /\ requested \in Requests
    /\ markets = DefaultedMarkets(requested)
    /\ sink \in {"none", "given"}
    /\ listing = "ok"
    /\ agent_exists = FALSE
    /\ FreshRun

(***************************************************************************)
(* execute, stage 1, and the start of _execute_parallel_searches           *)
(***************************************************************************)
\* Lines 184-204 and 310-331: the "Dispatching" progress call, then the
\* semaphore, the task list and gather under wait_for.
Dispatch ==
    /\ pc = "start"
    /\ \E cb \in CallbackOutcomes :
          IF cb = None
          THEN /\ pc' = "gather"
               /\ report' = report
          ELSE /\ pc' = "raised"
               /\ report' = WorkflowError(cb)
    /\ UNCHANGED << clock, inputs, calls, notified, analysis_prompt, markets, sink, ts, rs, search_exit, prov, sem_value,
                    waiters, must_cancel, completed_count, overtaken, results,
                    aggregated, synth_calls >>

(***************************************************************************)
(* search_with_semaphore(markets[i])                                       *)
(***************************************************************************)
\* First run of task i (the loop starts the tasks in the order gather got
\* them): take a slot and call _search_single_market, which runs up to
\* the await of run_in_executor, or queue on the semaphore.
TaskStart(i) ==
    /\ pc = "gather"
    /\ ts[i] = "created"
    /\ \A j \in Tasks : j < i => ts[j] # "created"
    /\ IF ~Locked
       THEN /\ sem_value' = sem_value - 1
            /\ ts' = [ts EXCEPT ![i] = "searching"]
            /\ BeginSearch(i)
            /\ waiters' = waiters
       ELSE /\ waiters' = Append(waiters, i)
            /\ ts' = [ts EXCEPT ![i] = "waiting"]
            /\ UNCHANGED << sem_value, prov, calls >>
    /\ UNCHANGED << clock, inputs, notified, analysis_prompt, markets, sink, pc, rs, search_exit, must_cancel,
                    completed_count, overtaken, results, aggregated, synth_calls,
                    report >>

\* Semaphore.acquire resumes in a task that was handed a slot: it leaves
\* the waiter queue and calls _search_single_market.
TaskResume(i) ==
    /\ ts[i] = "woken"
    /\ i \notin must_cancel
    /\ waiters' = RemoveWaiter(i)
    /\ BeginSearch(i)
    /\ LET t == [ts EXCEPT ![i] = "searching"]
           w == NextWaiter(t)
       IN  IF sem_value > 0 /\ w # 0
           THEN /\ sem_value' = sem_value - 1
                /\ ts' = [t EXCEPT ![w] = "woken"]
           ELSE /\ sem_value' = sem_value
                /\ ts' = t
    /\ UNCHANGED << clock, inputs, notified, analysis_prompt, markets, sink, pc, rs, search_exit,
                    must_cancel, completed_count, overtaken, results, aggregated,
                    synth_calls, report >>

\* gather schedules the first run of every task before it suspends, so all
\* tasks have taken a slot or queued before the loop handles anything else.
AllStarted == \A j \in Tasks : ts[j] # "created"

\* Task i finishes while a task requested before it has not.
Overtakes(i) == \E j \in Tasks : j < i /\ ts[j] \notin Terminal

\* Lines 317-321 once _search_single_market has returned `result`:
\* count, report progress, return through the semaphore's __aexit__.
SearchReturned(i, result) ==
    /\ search_exit' = [search_exit EXCEPT ![i] = "result"]
    /\ completed_count' = completed_count + 1
    /\ notified' = Notify(completed_count + 1)
    /\ overtaken' = (overtaken \/ Overtakes(i))
    /\ \E cb \in CallbackOutcomes :
          IF cb = None
          THEN /\ rs' = [rs EXCEPT ![i] = result]
               /\ ReleaseBy(i, "done")
          ELSE /\ rs' = [rs EXCEPT ![i] = RaisedException(cb)]
               /\ ReleaseBy(i, "failed")
    /\ UNCHANGED << clock, inputs, calls, analysis_prompt, markets, sink, pc, waiters, must_cancel, results,
                    aggregated, synth_calls, report >>

(***************************************************************************)
(* _search_single_market(markets[i]): the race of lines 433-436            *)
(***************************************************************************)
\* int((time.time() - start_time) * 1000) as call i measures it now.
Elapsed(i) == { age[i] * TickMs + d : d \in MeasuredMs }

\* The same in the except asyncio.TimeoutError branch: the timer does not
\* fire before MARKET_TIMEOUT_SECONDS have passed.
TimeoutElapsed(i) ==
    { (IF e < MARKET_TIMEOUT_SECONDS * 1000
       THEN MARKET_TIMEOUT_SECONDS * 1000 + (e % TickMs) ELSE e) : e \in Elapsed(i) }

\* responses.create returns in its thread before the market timer fires.
ProviderReturns(i) ==
    /\ AllStarted
    /\ ts[i] = "searching"
    /\ i \notin must_cancel
    /\ prov[i] = "running"
    /\ prov' = [prov EXCEPT ![i] = "finished"]
    /\ \E response \in SearchResponses, ms \in Elapsed(i) :
          SearchReturned(i, SuccessResult(markets[i], response, ms))

\* (Variant: a search that fails is made again.)
ProviderRaisesRetried(i) ==
    /\ AllStarted
    /\ ts[i] = "searching"
    /\ i \notin must_cancel
    /\ prov[i] = "running"
    /\ BeginSearch(i)
    /\ UNCHANGED << clock, inputs, notified, analysis_prompt, markets, sink, pc,
                    ts, rs, search_exit, sem_value, waiters, must_cancel,
                    completed_count, overtaken, results, aggregated,
                    synth_calls, report >>

\* do_search raises (the agent cannot be created, responses.create fails).
ProviderRaises(i) ==
    /\ AllStarted
    /\ ts[i] = "searching"
    /\ i \notin must_cancel
    /\ prov[i] = "running"
    /\ prov' = [prov EXCEPT ![i] = "finished"]
    /\ \E msg \in ProviderErrors, ms \in Elapsed(i) :
          SearchReturned(i, ErrorResult(markets[i], msg, ms))

\* The wait_for of line 433 times out: do_search is cancelled, the executor
\* thread keeps running.
MarketTimeout(i) ==
    /\ AllStarted
    /\ ts[i] = "searching"
    /\ i \notin must_cancel
    /\ prov[i] = "running"
    /\ prov' = prov
    /\ \E ms \in TimeoutElapsed(i) :
          SearchReturned(i, TimeoutResult(markets[i], ms))

\* (Variant: the answer of a search nobody awaits any more is taken as the
\* market's result.)
ProviderEndsUnawaitedKept(i) ==
    /\ prov[i] = "running"
    /\ ts[i] \in Terminal
    /\ prov' = [prov EXCEPT ![i] = "finished"]
    /\ \E response \in SearchResponses, ms \in Elapsed(i) :
          rs' = [rs EXCEPT ![i] = SuccessResult(markets[i], response, ms)]
    /\ UNCHANGED << clock, inputs, calls, notified, analysis_prompt, markets,
                    sink, pc, ts, search_exit, sem_value, waiters, must_cancel,
                    completed_count, overtaken, results, aggregated,
                    synth_calls, report >>

\* The executor thread of a search nobody awaits any more comes to its end.
ProviderEndsUnawaited(i) ==
    /\ prov[i] = "running"
    /\ ts[i] \in Terminal
    /\ prov' = [prov EXCEPT ![i] = "finished"]
    /\ UNCHANGED << clock, inputs, calls, notified, analysis_prompt, markets, sink, pc, ts, rs, search_exit, sem_value,
                    waiters, must_cancel, completed_count, overtaken, results,
                    aggregated, synth_calls, report >>

(***************************************************************************)
(* The overall timeout                                                     *)
(***************************************************************************)
\* wait_for(gather, OVERALL_TIMEOUT_SECONDS) times out: gather is
\* cancelled, which cancels every task that is not done.
OverallTimeout ==
    /\ pc = "gather"
    /\ AllStarted
    /\ \E i \in Tasks : ts[i] \notin Terminal
    /\ pc' = "cancelling"
    /\ must_cancel' = { i \in Tasks : ts[i] \notin Terminal }
    /\ UNCHANGED << clock, inputs, calls, notified, analysis_prompt, markets, sink, ts, rs, search_exit, prov, sem_value,
                    waiters, completed_count, overtaken, results, aggregated,
                    synth_calls, report >>

\* Task i runs with the CancelledError.  A task that waits for a slot just
\* ends; one that was handed a slot gives it back
\* (Semaphore.acquire); one inside _search_single_market gets the error
\* from wait_for, which no except clause of _search_single_market catches
\* (CancelledError is not an Exception), and releases the semaphore.
CancelDelivered(i) ==
    /\ i \in must_cancel
    /\ must_cancel' = must_cancel \ {i}
    /\ overtaken' = (overtaken \/ Overtakes(i))
    /\ rs' = rs
    /\ IF ts[i] = "waiting"
       THEN /\ ts' = [ts EXCEPT ![i] = "cancelled"]
            /\ waiters' = RemoveWaiter(i)
            /\ UNCHANGED << sem_value, search_exit >>
       ELSE /\ ReleaseBy(i, "cancelled")
            /\ waiters' = RemoveWaiter(i)
            /\ search_exit' = [search_exit EXCEPT ![i] =
                    IF ts[i] = "searching" THEN "exception" ELSE @]
    /\ UNCHANGED << clock, inputs, calls, notified, analysis_prompt, markets, sink, pc, prov, completed_count, results,
                    aggregated, synth_calls, report >>

(***************************************************************************)
(* _execute_parallel_searches returns                                      *)
(***************************************************************************)
\* gather is done when every task is.
GatherFinished == \A i \in Tasks : ts[i] \in Terminal

\* (Variant that waits for the cancelled searches only, not for the tasks
\* cancelled in the queue of the semaphore.)
CancelAndWaitForSearches == \A i \in Tasks : ts[i] # "searching"

\* (Variant that abandons the cancelled tasks.)
CancelNoWait == TRUE

\* (Variant that also waits for the executor threads to end.)
CancelAndJoinThreads ==
    \A i \in Tasks : ts[i] \in Terminal /\ prov[i] # "running"

\* wait_for cancels gather and waits until it is done before it raises
\* TimeoutError (_cancel_and_wait).
CancelAndWait == \A i \in Tasks : ts[i] \in Terminal

\* Lines 328-331 return, then lines 346-373.
GatherDone ==
    /\ pc = "gather"
    /\ GatherFinished
    /\ results' = ProcessResults(GatherResults)
    /\ pc' = "stage3"
    /\ UNCHANGED << clock, inputs, calls, notified, analysis_prompt, markets, sink, ts, rs, search_exit, prov, sem_value,
                    waiters, must_cancel, completed_count, overtaken, aggregated,
                    synth_calls, report >>

\* Lines 332-344, then lines 346-373.
GatherTimedOut ==
    /\ pc = "cancelling"
    /\ CancelAndWait
    /\ results' = ProcessResults(OverallTimeoutResults)
    /\ pc' = "stage3"
    /\ UNCHANGED << clock, inputs, calls, notified, analysis_prompt, markets, sink, ts, rs, search_exit, prov, sem_value,
                    waiters, must_cancel, completed_count, overtaken, aggregated,
                    synth_calls, report >>

(***************************************************************************)
(* execute, stages 3 and 4                                                 *)
(***************************************************************************)
\* Lines 211-223.
Aggregation ==
    /\ pc = "stage3"
    /\ \E cb \in CallbackOutcomes :
          IF cb = None
          THEN /\ aggregated' = AggregateResults(results)
               /\ pc' = "stage4"
               /\ report' = report
          ELSE /\ aggregated' = aggregated
               /\ pc' = "raised"
               /\ report' = WorkflowError(cb)
    /\ UNCHANGED << clock, inputs, calls, notified, analysis_prompt, markets, sink, ts, rs, search_exit, prov, sem_value,
                    waiters, must_cancel, completed_count, overtaken, results,
                    synth_calls >>

\* (Variant that skips the analysis when no market succeeded.)
SkipIfNothingFound(agg) == agg.successful_markets # << >>

\* Whether _generate_cross_market_analysis calls the analysis agent: always,
\* there is no early return.
CallsAnalysis(agg) == TRUE

\* Lines 226-237 and 620-686: the progress call, then
\* _generate_cross_market_analysis up to responses.create.
AnalysisCalled ==
    /\ pc = "stage4"
    /\ \E cb \in CallbackOutcomes :
          IF cb = None
          THEN /\ pc' = "analysis"
               /\ synth_calls' =
                     IF CallsAnalysis(aggregated) THEN synth_calls + 1
                     ELSE synth_calls
               /\ analysis_prompt' =
                     IF CallsAnalysis(aggregated) THEN AnalysisPrompt(aggregated)
                     ELSE analysis_prompt
               /\ report' = report
          ELSE /\ pc' = "raised"
               /\ synth_calls' = synth_calls
               /\ analysis_prompt' = analysis_prompt
               /\ report' = WorkflowError(cb)
    /\ UNCHANGED << clock, inputs, calls, notified, markets, sink, ts, rs, search_exit, prov, sem_value,
                    waiters, must_cancel, completed_count, overtaken, results,
                    aggregated >>

\* int((time.time() - workflow_start_time) * 1000), line 242 (the
\* analysis call itself takes less than a tick).
WorkflowElapsed == { now * TickMs + d : d \in MeasuredMs }

\* responses.create returns: lines 688-700 and 241-291.
AnalysisReturns ==
    /\ pc = "analysis"
    /\ \E text \in AnalysisTexts, total_time_ms \in WorkflowElapsed :
          report' = BuildResponse(text, aggregated, results, total_time_ms)
    /\ pc' = "returned"
    /\ UNCHANGED << clock, inputs, calls, notified, analysis_prompt, markets, sink, ts, rs, search_exit, prov, sem_value,
                    waiters, must_cancel, completed_count, overtaken, results,
                    aggregated, synth_calls >>

\* responses.create raises: lines 293-296.
AnalysisRaises ==
    /\ pc = "analysis"
    /\ \E msg \in ProviderErrors : report' = WorkflowError(msg)
    /\ pc' = "raised"
    /\ UNCHANGED << clock, inputs, calls, notified, analysis_prompt, markets, sink, ts, rs, search_exit, prov, sem_value,
                    waiters, must_cancel, completed_count, overtaken, results,
                    aggregated, synth_calls >>

(***************************************************************************)
(* Specification                                                           *)
(***************************************************************************)
Next ==
    \/ Dispatch
    \/ \E i \in Tasks : TaskStart(i)
    \/ \E i \in Tasks : TaskResume(i)
    \/ \E i \in Tasks : ProviderReturns(i)
    \/ \E i \in Tasks : ProviderRaises(i)
    \/ \E i \in Tasks : MarketTimeout(i)
    \/ \E i \in Tasks : ProviderEndsUnawaited(i)
    \/ OverallTimeout
    \/ \E i \in Tasks : CancelDelivered(i)
    \/ GatherDone
    \/ GatherTimedOut
    \/ Aggregation
    \/ AnalysisCalled
    \/ AnalysisReturns
    \/ AnalysisRaises

Spec == Init /\ [][Next]_vars

(***************************************************************************)
(* Properties                                                              *)
(***************************************************************************)
\* The wait_for of line 328 timed out: some task was cancelled.
OverallTimedOut == \E i \in Tasks : ts[i] = "cancelled"

Dispatched == results # << >>

\* C1: the i-th result the dispatcher returns is for the i-th requested
\* market, whatever the order the tasks finished in: it carries that market,
\* it is the very result task i returned (or, for a task that raised, the
\* error made from its exception) unless the overall timeout replaced it,
\* and the aggregate's results are that same sequence.
OutcomesInRequestOrder ==
    Dispatched =>
        /\ Len(results) = Len(markets)
        /\ \A i \in Tasks :
              /\ results[i].market = markets[i]
              /\ (~OverallTimedOut /\ ts[i] = "done") => results[i] = rs[i]
              /\ (~OverallTimedOut /\ ts[i] = "failed") =>
                    /\ results[i].status = ERROR
                    /\ results[i].error_message = rs[i].message
        /\ aggregated # NoAggregate => aggregated.results = results

OutcomesInRequestOrderWitness ==
    /\ aggregated # NoAggregate
    /\ overtaken
    /\ ~OverallTimedOut
    /\ Len(markets) = 3
    /\ markets[1] # markets[2]
    /\ results[1].status = TIMEOUT
    /\ results[2].status = SUCCESS

\* C2: after an overall timeout the dispatcher's output keeps the result of
\* every task that had completed, and marks only the cancelled ones Timeout
\* with the overall-timeout message.
OverallTimeoutKeepsCompleted ==
    (Dispatched /\ OverallTimedOut) =>
        \A i \in Tasks :
            /\ ts[i] = "done" => results[i] = rs[i]
            /\ ts[i] = "cancelled" => results[i] = OverallTimeoutResult(markets[i])

\* Task i returned what its own _search_single_market call ended with.
SearchSucceeded(i) ==
    ts[i] = "done" /\ rs[i].kind = "MarketSearchResult" /\ rs[i].status = SUCCESS

SearchFailed(i) ==
    ts[i] = "done" /\ rs[i].kind = "MarketSearchResult" /\ rs[i].status # SUCCESS

\* C3: when some market's search ended in Error or Timeout, every other
\* market whose own search returned Success is reported Success, and the
\* failed markets are exactly those whose own search did not succeed.
FailureIsolation ==
    (aggregated # NoAggregate /\ \E r \in Tasks : SearchFailed(r)) =>
        /\ \A i \in Tasks : SearchSucceeded(i) => results[i].status = SUCCESS
        /\ aggregated.failed_markets =
              MarketsOf(SelectSeq([i \in Tasks |-> [market |-> markets[i], idx |-> i]],
                                  LAMBDA e : ~SearchSucceeded(e.idx)))

\* The tasks that hold a slot of the semaphore, and those that wait for one.
InFlight == { i \in Tasks : ts[i] \in {"woken", "searching"} }

Queued == { i \in Tasks : ts[i] = "waiting" /\ i \notin must_cancel }

\* C4: at most MAX_CONCURRENT_SEARCHES tasks hold a slot of the semaphore
\* (handed a slot or searching), and a task waits for a slot only while
\* every slot is held.
ConcurrencyCap ==
    /\ Cardinality(InFlight) <= MAX_CONCURRENT_SEARCHES
    /\ Cardinality({ i \in Tasks : ts[i] = "searching" /\ prov[i] = "running" })
          <= MAX_CONCURRENT_SEARCHES
    /\ sem_value + Cardinality(InFlight) = MAX_CONCURRENT_SEARCHES
    /\ Queued # {} => Cardinality(InFlight) = MAX_CONCURRENT_SEARCHES

ConcurrencyCapWitness ==
    /\ Cardinality(InFlight) = MAX_CONCURRENT_SEARCHES
    /\ Queued # {}
    /\ \A i \in InFlight : prov[i] = "running"

\* C5: _search_single_market always returns a MarketSearchResult to
\* search_with_semaphore; no call of it ends with an exception.
SearchTaskNeverRaises == \A i \in Tasks : search_exit[i] # "exception"

\* C6: no two of the aggregate's citations have the same url.
NoDuplicateUrls ==
    aggregated # NoAggregate =>
        \A a, b \in DOMAIN aggregated.total_citations :
            a # b => aggregated.total_citations[a].url
                       # aggregated.total_citations[b].url

\* C7: successful and failed markets together are all the results, one per
\* requested market, and the reported successful_count + failed_count is
\* total_markets.
CountsAddUp ==
    /\ aggregated # NoAggregate =>
          /\ Len(aggregated.successful_markets) + Len(aggregated.failed_markets)
                = Len(aggregated.results)
          /\ Len(aggregated.results) = Len(markets)
    /\ report.kind = "AnalysisResponse" =>
          /\ report.successful_count + report.failed_count = report.total_markets
          /\ report.total_markets = Len(markets)
          /\ Len(report.successful_markets) + Len(report.failed_markets)
                = Len(report.market_results)

CountsAddUpWitness ==
    /\ report.kind = "AnalysisResponse"
    /\ report.successful_count = 1
    /\ report.failed_count = 2
    /\ \E k \in DOMAIN results : results[k].status = TIMEOUT
    /\ \E k \in DOMAIN results : results[k].status = ERROR

WellFormed(r) ==
    /\ r.status \in {SUCCESS, TIMEOUT, ERROR}
    /\ r.status = SUCCESS => r.error_message = None
    /\ r.status \in {TIMEOUT, ERROR} => (r.text = "" /\ r.citations = << >>)

\* C8: every MarketSearchResult, as returned by a task and as returned by
\* the dispatcher, has no error message when its status is success, and
\* has empty text and no citations when its status is timeout or error.
OutcomesWellFormed ==
    /\ \A i \in Tasks : rs[i].kind = "MarketSearchResult" => WellFormed(rs[i])
    /\ \A k \in DOMAIN results : WellFormed(results[k])

OutcomesWellFormedWitness ==
    /\ Dispatched
    /\ \E i \in Tasks : ts[i] = "failed" /\ results[i].status = ERROR
    /\ \E i \in Tasks : results[i].status = TIMEOUT
    /\ \E i \in Tasks : results[i].status = SUCCESS /\ results[i].citations # << >>

\* C9: once _generate_cross_market_analysis runs, the analysis agent has
\* been called exactly once, also when no market succeeded; it is never
\* called before, and never a second time.
AnalysisCalledOnce ==
    /\ synth_calls <= 1
    /\ pc \in {"analysis", "returned"} => synth_calls = 1
    /\ pc \in {"start", "gather", "cancelling", "stage3", "stage4"} => synth_calls = 0

AnalysisCalledOnceWitness ==
    /\ pc = "returned"
    /\ synth_calls = 1
    /\ aggregated.successful_markets = << >>
    /\ \E k \in DOMAIN results : results[k].status = ERROR

StageOf(p) ==
    CASE p = "start" -> 0
      [] p \in {"gather", "cancelling"} -> 1
      [] p = "stage3" -> 2
      [] p = "stage4" -> 3
      [] p = "analysis" -> 4
      [] OTHER -> 5

StageStep ==
    /\ StageOf(pc') >= StageOf(pc)
    /\ (StageOf(pc) >= 2) => (ts' = ts /\ results' = results)
    /\ (StageOf(pc) >= 3) => (aggregated' = aggregated)

\* C10: the stages only move forward; the analysis agent is called only
\* when every task is finished (also after an overall timeout) and the
\* results are aggregated; and once the dispatcher has returned no task
\* takes a step.
StagesForward ==
    /\ [](synth_calls > 0 =>
            /\ \A i \in Tasks : ts[i] \in Terminal
            /\ Dispatched
            /\ aggregated = AggregateResults(results))
    /\ [](aggregated # NoAggregate => Dispatched)
    /\ [][StageStep]_vars

StagesForwardWitness ==
    /\ pc = "analysis"
    /\ synth_calls = 1
    /\ \E i \in Tasks : ts[i] = "cancelled" /\ prov[i] = "running"
    /\ \E i \in Tasks : ts[i] = "done"

\* The analysis agent's responses.create raised: the only step to "raised"
\* that is taken after the call was made.
AnalysisFailed == pc = "raised" /\ synth_calls = 1

\* C11: execute ends with an exception instead of a response exactly when
\* the call of the analysis agent failed; no market failure, overall
\* timeout or progress callback aborts it.
ErrorOnlyFromAnalysis ==
    /\ (report.kind = "error") <=> AnalysisFailed
    /\ pc = "raised" => AnalysisFailed

(***************************************************************************)
(* Scheduling: what the event loop and the timers guarantee                *)
(***************************************************************************)
\* A step the event loop runs as soon as its coroutine is ready.
LoopStep ==
    \/ Dispatch
    \/ \E i \in Tasks : TaskStart(i)
    \/ \E i \in Tasks : TaskResume(i)
    \/ \E i \in Tasks : CancelDelivered(i)
    \/ GatherDone
    \/ GatherTimedOut
    \/ Aggregation
    \/ AnalysisCalled

\* The loop runs what is ready; the timers of the two wait_for calls fire
\* when their time is up; the analysis agent's responses.create returns
\* or raises.  Nothing is assumed of the search calls in the executor
\* threads: they may never return.
Fairness ==
    /\ WF_vars(LoopStep)
    /\ WF_vars(\E i \in Tasks : MarketTimeout(i))
    /\ WF_vars(OverallTimeout)
    /\ WF_vars(AnalysisReturns \/ AnalysisRaises)

SpecFair == Init /\ [][Next]_vars /\ Fairness

\* C12: if the analysis call returns or raises, execute ends, with a
\* response or with an exception and never both, also when search calls
\* never return.
EventuallyOneResult ==
    /\ <>[](pc \in {"returned", "raised"})
    /\ [](pc = "returned" <=> report.kind = "AnalysisResponse")
    /\ [](pc = "raised" <=> report.kind = "error")

EventuallyOneResultWitness ==
    /\ pc = "returned"
    /\ report.kind = "AnalysisResponse"
    /\ ~OverallTimedOut
    /\ \E i \in Tasks : prov[i] = "running" /\ results[i].status = TIMEOUT

(***************************************************************************)
(* The clock                                                               *)
(***************************************************************************)
\* Time passes while the loop has nothing to run and every timer is still
\* to come: no task is ready to resume, gather is not done, and neither
\* wait_for has reached its timeout.  A search that is under way grows
\* older, a task queued for the semaphore waits longer.
Tick ==
    /\ pc = "gather"
    /\ AllStarted
    /\ \E i \in Tasks : ts[i] \notin Terminal
    /\ \A i \in Tasks : ts[i] # "woken"
    /\ \A i \in Tasks : ts[i] = "searching" => age[i] < MarketTicks
    /\ now < OverallTicks
    /\ now' = now + 1
    /\ age' = [i \in Tasks |-> IF ts[i] = "searching" THEN age[i] + 1 ELSE age[i]]
    /\ waited' = [i \in Tasks |-> IF ts[i] = "waiting" THEN waited[i] + 1
                                  ELSE waited[i]]
    /\ UNCHANGED << inputs, calls, notified,
                    analysis_prompt, markets, sink, pc, ts, rs, search_exit,
                    prov, sem_value, waiters, must_cancel, completed_count,
                    overtaken, results, aggregated, synth_calls, report >>

\* (Variant: a timer started with the task, before it has a slot.)
MarketTimerFromTaskStart(i) ==
    /\ waited[i] + age[i] >= MarketTicks
    /\ MarketTimeout(i)

\* (Variant: a timer that may fire before its time.)
MarketTimerEarly(i) == MarketTimeout(i)

\* The timer of wait_for(do_search(), MARKET_TIMEOUT_SECONDS) is due.
MarketTimer(i) ==
    /\ age[i] >= MarketTicks
    /\ MarketTimeout(i)

\* The timer of wait_for(gather, OVERALL_TIMEOUT_SECONDS) is due.
OverallTimerDue == pc = "gather" /\ now >= OverallTicks

\* The steps of a run on the clock.  Every search ends MarketTicks after it
\* began at the latest, and the markets of the model need at most
\* MaxRegions rounds on the semaphore, less than OverallTicks: the overall
\* timer is never due (OverallTimerDue is never true), so the steps that
\* follow it, OverallTimeout, CancelDelivered and GatherTimedOut, are steps
\* of Spec only.
NextTimed ==
    \/ Dispatch
    \/ \E i \in Tasks : TaskStart(i)
    \/ \E i \in Tasks : TaskResume(i)
    \/ \E i \in Tasks : ProviderReturns(i)
    \/ \E i \in Tasks : ProviderRaises(i)
    \/ \E i \in Tasks : MarketTimer(i)
    \/ \E i \in Tasks : ProviderEndsUnawaited(i)
    \/ GatherDone
    \/ Aggregation
    \/ AnalysisCalled
    \/ AnalysisReturns
    \/ AnalysisRaises
    \/ Tick

\* The clock is watched in runs without a progress callback: a call of the
\* callback takes no time, and what a raising callback does to a result
\* does not depend on the time (Spec has those runs).
InitTimed == Init /\ sink = "none"

SpecTimed == InitTimed /\ [][NextTimed]_vars

\* Task i returned the Timeout result of its own wait_for.
MarketTimedOut(i) ==
    ts[i] = "done" /\ rs[i].kind = "MarketSearchResult" /\ rs[i].status = TIMEOUT

\* Task i returned what it made of the answer (or the exception) of its
\* own responses.create call.
ProviderAnswered(i) ==
    ts[i] = "done" /\ rs[i].kind = "MarketSearchResult" /\ rs[i].status # TIMEOUT

SinkIsObservational ==
    /\ \A i \in Tasks :
          search_exit[i] = "result" =>
              /\ ts[i] = "done"
              /\ rs[i].kind = "MarketSearchResult"
              /\ (Dispatched /\ ~OverallTimedOut) => results[i] = rs[i]
    /\ report.kind = "error" => AnalysisFailed

\* C15: the total_execution_time_ms of the response is the aggregate's,
\* the sum of the execution_time_ms of all market results.
ReportedTotalIsSum ==
    report.kind = "AnalysisResponse" =>
        /\ aggregated.total_execution_time_ms = Sum(TimesOf(results))
        /\ report.total_execution_time_ms = aggregated.total_execution_time_ms

\* C16: the response carries the aggregate's citations, successful and
\* failed markets, and its market_results has one entry per result of the
\* aggregate, in the same order, with that result's market, status,
\* execution_time_ms, number of citations and error message.
ReportCopiesAggregate ==
    report.kind = "AnalysisResponse" =>
        /\ report.citations = aggregated.total_citations
        /\ report.successful_markets = aggregated.successful_markets
        /\ report.failed_markets = aggregated.failed_markets
        /\ Len(report.market_results) = Len(aggregated.results)
        /\ \A k \in DOMAIN aggregated.results :
              LET e == report.market_results[k]
                  r == aggregated.results[k]
              IN  /\ e.market = r.market
                  /\ e.status = r.status
                  /\ e.execution_time_ms = r.execution_time_ms
                  /\ e.citation_count = Len(r.citations)
                  /\ e.error = r.error_message

ReportCopiesAggregateWitness ==
    /\ report.kind = "AnalysisResponse"
    /\ Len(report.market_results) = 3
    /\ report.market_results[1].status = TIMEOUT
    /\ report.market_results[1].error = MarketTimeoutMessage
    /\ report.market_results[2].status = SUCCESS
    /\ report.market_results[2].citation_count = 2
    /\ report.market_results[3].status = ERROR
    /\ Len(report.citations) = 2

(***************************************************************************)
(* Stages 3 and 4 on any dispatcher output                                 *)
(***************************************************************************)
\* Results _execute_parallel_searches can return: the three returns of
\* _search_single_market, the result made of an exception (also one whose
\* str() is empty), and the result of the overall timeout.
SampleResults ==
    { SuccessResult("en-US", r, 40) : r \in SearchResponses }
    \cup { SuccessResult("de-DE", r, TickMs + 40) : r \in SearchResponses }
    \cup { TimeoutResult("en-US", MARKET_TIMEOUT_SECONDS * 1000 + 40),
           ErrorResult("de-DE", "provider failed", 40),
           ProcessResult("en-US", RaisedException("")),
           OverallTimeoutResult("de-DE") }

\* execute at line 206 (no progress callback): the dispatcher has returned
\* `results` for the markets of the request.
InitFromResults ==
    /\ results \in SeqsUpTo(SampleResults, MaxRegions) \ { << >> }
    /\ markets = MarketsOf(results)
    /\ sink = "none"
    /\ pc = "stage3"
    /\ ts = [i \in Tasks |-> "done"]
    /\ rs = [i \in Tasks |-> results[i]]
    /\ search_exit = [i \in Tasks |-> "result"]
    /\ prov = [i \in Tasks |-> "finished"]
    /\ sem_value = MAX_CONCURRENT_SEARCHES
    /\ waiters = << >>
    /\ must_cancel = {}
    /\ completed_count = Len(markets)
    /\ overtaken = FALSE
    /\ aggregated = NoAggregate
    /\ synth_calls = 0
    /\ analysis_prompt = NoPrompt
    /\ report = NoReport
    /\ now = 0
    /\ age = [i \in Tasks |-> 0]
    /\ waited = [i \in Tasks |-> 0]
    /\ requested = [passed |-> TRUE, markets |-> markets, market |-> None]
    /\ listing = "ok"
    /\ agent_exists = TRUE
    /\ agents_created = 1
    /\ search_calls = [i \in Tasks |-> 1]
    /\ notified = << >>

NextFromResults ==
    \/ Aggregation
    \/ AnalysisCalled
    \/ AnalysisReturns
    \/ AnalysisRaises

SpecFromResults == InitFromResults /\ [][NextFromResults]_vars

\* C17: the prompt the analysis agent is called with has one context part
\* per market result, in the order of the request; the part of a
\* successful market carries its text, the part of any other market its
\* status and its error message ('Unknown error' when that is empty),
\* so no failed market is left out.
ContextCoversEveryMarket ==
    synth_calls > 0 =>
        LET ctx == analysis_prompt.market_context
        IN  /\ Len(ctx) = Len(markets)
            /\ \A k \in Tasks :
                  /\ ctx[k].market = markets[k]
                  /\ ctx[k].label = Upper(results[k].status)
                  /\ results[k].status = SUCCESS =>
                        ctx[k].findings = results[k].text
                  /\ results[k].status # SUCCESS =>
                        /\ ctx[k].status = results[k].status
                        /\ ctx[k].error \notin {None, ""}
                        /\ results[k].error_message \notin {None, ""} =>
                              ctx[k].error = results[k].error_message

ContextCoversEveryMarketWitness ==
    /\ pc = "analysis"
    /\ Len(markets) = 3
    /\ analysis_prompt.market_context[1].status = TIMEOUT
    /\ analysis_prompt.market_context[2].label = "SUCCESS"
    /\ analysis_prompt.market_context[2].findings = "two sources"
    /\ results[3].error_message = ""
    /\ analysis_prompt.market_context[3].label = "ERROR"
    /\ analysis_prompt.market_context[3].error = "Unknown error"

\* The positions of the successful results, and of all the others.
SuccessAt == { k \in DOMAIN results : results[k].status = SUCCESS }
FailureAt == DOMAIN results \ SuccessAt

\* C18: whatever results it is given, _aggregate_results keeps them as
\* they are, lists the markets of the successful ones, in their order, as
\* successful_markets, and the markets of all the others, in their order,
\* as failed_markets: the n-th successful result gives the n-th
\* successful market, the n-th other result the n-th failed market.
AggregatePartitions ==
    aggregated # NoAggregate =>
        /\ aggregated.results = results
        /\ Len(aggregated.successful_markets) = Cardinality(SuccessAt)
        /\ \A k \in SuccessAt :
              aggregated.successful_markets[
                  Cardinality({ j \in SuccessAt : j <= k })] = results[k].market
        /\ Len(aggregated.failed_markets) = Cardinality(FailureAt)
        /\ \A k \in FailureAt :
              aggregated.failed_markets[
                  Cardinality({ j \in FailureAt : j <= k })] = results[k].market

AggregatePartitionsWitness ==
    /\ aggregated # NoAggregate
    /\ Len(results) = 3
    /\ results[1].status = SUCCESS /\ results[1].market = "de-DE"
    /\ results[2].status = TIMEOUT /\ results[2].market = "en-US"
    /\ results[3].status = SUCCESS /\ results[3].market = "en-US"
    /\ aggregated.successful_markets = << "de-DE", "en-US" >>
    /\ aggregated.failed_markets = << "en-US" >>

\* C19: when the overall timeout has not struck, every market's search ran
\* its own race to the end and the result of that race is the market's
\* final result: Timeout with the market-timeout message if the timer
\* won, else what the search made of the call's answer or exception; and
\* the response lists the markets by these results.
OwnRaceDecides ==
    (Dispatched /\ ~OverallTimedOut) =>
        /\ \A i \in Tasks :
              /\ search_exit[i] = "result"
              /\ ts[i] = "done"
              /\ results[i] = rs[i]
              /\ results[i].status = TIMEOUT =>
                    results[i].error_message = MarketTimeoutMessage
              /\ results[i].status # TIMEOUT => prov[i] = "finished"
        /\ report.kind = "AnalysisResponse" =>
              /\ Len(report.market_results) = Len(markets)
              /\ \A i \in Tasks :
                    report.market_results[i].status = rs[i].status
              /\ report.successful_markets =
                    MarketsOf(SelectSeq([i \in Tasks |-> rs[i]], IsSuccess))
              /\ report.failed_markets =
                    MarketsOf(SelectSeq([i \in Tasks |-> rs[i]], IsNotSuccess))

\* How often market code c occurs in a sequence of codes.
Occurrences(c, codes) == Cardinality({ k \in DOMAIN codes : codes[k] = c })

\* C20: a market code requested k times gets k tasks, each with its own
\* responses.create call, and k results, one at each of its positions;
\* the aggregate and the response account for every occurrence.
DuplicatesKept ==
    /\ \A i \in Tasks :
          ts[i] \in {"searching", "done", "failed"} => prov[i] # "idle"
    /\ Dispatched =>
          /\ Len(results) = Len(markets)
          /\ \A i \in Tasks : results[i].market = markets[i]
          /\ \A c \in MarketCodes :
                Occurrences(c, MarketsOf(results)) = Occurrences(c, markets)
    /\ aggregated # NoAggregate =>
          \A c \in MarketCodes :
              Occurrences(c, aggregated.successful_markets)
                + Occurrences(c, aggregated.failed_markets)
                  = Occurrences(c, markets)
    /\ report.kind = "AnalysisResponse" =>
          Len(report.market_results) = Len(markets)

DuplicatesKeptWitness ==
    /\ report.kind = "AnalysisResponse"
    /\ markets = << "en-US", "en-US", "en-US" >>
    /\ prov = << "finished", "running", "finished" >>
    /\ results[1].status = SUCCESS
    /\ results[2].status = TIMEOUT
    /\ results[3].status = ERROR
    /\ report.successful_markets = << "en-US" >>
    /\ report.failed_markets = << "en-US", "en-US" >>

(***************************************************************************)
(* The searches of one run                                                 *)
(***************************************************************************)
\* Task i has left search_with_semaphore with a result or an exception of
\* its own search (it was not cancelled).
Searched(i) == ts[i] \in {"done", "failed"}

\* C21: within one run do_search is called at most once for each requested
\* occurrence of a market: never for a task that still waits for a slot,
\* once for a task that searches or has ended with its result, whatever
\* the result (Success, Timeout or Error), and never a second time.
SearchedAtMostOnce ==
    \A i \in Tasks :
        /\ search_calls[i] <= 1
        /\ ts[i] \in {"created", "waiting", "woken"} => search_calls[i] = 0
        /\ (ts[i] = "searching" \/ Searched(i)) => search_calls[i] = 1

\* Every market of a full list was searched once, one of them timed out,
\* one failed, and execute has returned.
SearchedAtMostOnceWitness ==
    /\ pc = "returned"
    /\ Len(markets) = MaxRegions
    /\ \E i \in Tasks : MarketTimedOut(i)
    /\ \E i \in Tasks : ProviderAnswered(i) /\ rs[i].status = ERROR
    /\ \A i \in Tasks : search_calls[i] = 1

\* The wait_for of lines 328-331 has timed out.
OverallTimerFired == pc = "cancelling" \/ OverallTimedOut

\* The loop runs what is ready and the timer of each wait_for(do_search())
\* fires when its time is up.  Nothing is assumed of the overall timer (it
\* may or may not fire), of the search calls or of the analysis call.
SearchFairness ==
    /\ WF_vars(LoopStep)
    /\ WF_vars(\E i \in Tasks : MarketTimeout(i))

SpecFairSearches == Init /\ [][Next]_vars /\ SearchFairness

\* C22: once _execute_parallel_searches has made its tasks, either the
\* overall timeout fires or every task gets a slot and calls do_search,
\* however many markets are requested and however the earlier searches
\* end.
EveryRegionSearched ==
    (pc = "gather") ~> (OverallTimerFired \/ \A i \in Tasks : search_calls[i] = 1)

\* A market requested after MAX_CONCURRENT_SEARCHES others is being
\* searched although every search before it ended in Timeout or Error.
EveryRegionSearchedWitness ==
    /\ ~OverallTimerFired
    /\ \E i \in Tasks :
          /\ i > MAX_CONCURRENT_SEARCHES
          /\ ts[i] = "searching"
          /\ search_calls[i] = 1
          /\ \A j \in 1 .. (i - 1) :
                ts[j] = "done" /\ rs[j].status \in {TIMEOUT, ERROR}
          /\ \E j \in 1 .. (i - 1) : rs[j].status = TIMEOUT
          /\ \E j \in 1 .. (i - 1) : rs[j].status = ERROR

(***************************************************************************)
(* Runs in which every search takes the same time                          *)
(***************************************************************************)
\* Markets requested: one more than two full rounds on the semaphore.
RoundRegions == 2 * MAX_CONCURRENT_SEARCHES + 1

\* Ticks every responses.create call takes: less than the market timeout,
\* so that no timer of wait_for(do_search()) is ever due.
DelayTicks == MarketTicks - 1

\* Searches under way.
Running == { i \in Tasks : ts[i] = "searching" }

\* execute is called without a progress callback for RoundRegions markets.
InitRounds ==
    /\ requested = [passed |-> TRUE,
                    markets |-> [i \in 1 .. RoundRegions |->
                                    IF i % 2 = 1 THEN "en-US" ELSE "de-DE"],
                    market |-> None]
    /\ markets = DefaultedMarkets(requested)
    /\ sink = "none"
    /\ listing = "ok"
    /\ agent_exists = FALSE
    /\ FreshRun

\* responses.create returns DelayTicks after it was called.
ProviderReturnsOnTime(i) ==
    /\ age[i] = DelayTicks
    /\ ProviderReturns(i)

\* Time passes while no search has its answer ready.
RoundsTick ==
    /\ \A i \in Running : age[i] < DelayTicks
    /\ Tick

NextRounds ==
    \/ Dispatch
    \/ \E i \in Tasks : TaskStart(i)
    \/ \E i \in Tasks : TaskResume(i)
    \/ \E i \in Tasks : ProviderReturnsOnTime(i)
    \/ RoundsTick
    \/ GatherDone

SpecRounds == InitRounds /\ [][NextRounds]_vars

\* C23: with 2 * MAX_CONCURRENT_SEARCHES + 1 markets (5 markets on 2
\* slots) that each take the delay d, never more than
\* MAX_CONCURRENT_SEARCHES searches run, no slot is free while a task is
\* queued, and _execute_parallel_searches returns when at least 3 * d and
\* less than RoundRegions * d have passed.
ThreeRounds ==
    /\ Cardinality(Running) <= MAX_CONCURRENT_SEARCHES
    /\ (\E i \in Tasks : ts[i] = "waiting") => sem_value = 0
    /\ Dispatched =>
          /\ now * TickMs >= 3 * DelayTicks * TickMs
          /\ now * TickMs < RoundRegions * DelayTicks * TickMs

\* The dispatcher has returned the results of all markets after exactly
\* three rounds.
ThreeRoundsWitness ==
    /\ Dispatched
    /\ Len(results) = RoundRegions
    /\ \A i \in Tasks : results[i].status = SUCCESS
    /\ now = 3 * DelayTicks

\* responses.create calls handed to the executor that have not come back.
Outstanding == { i \in Tasks : prov[i] = "running" }

\* C24: at any time at most MAX_CONCURRENT_SEARCHES responses.create calls
\* are under way, the calls of markets already given their Timeout
\* included.
OutstandingCallsCapped == Cardinality(Outstanding) <= MAX_CONCURRENT_SEARCHES

\* _execute_parallel_searches has returned through its
\* except asyncio.TimeoutError branch (lines 332-344).
ReturnedTimedOut == Dispatched /\ OverallTimedOut

\* C25: once the overall timeout has fired and the dispatcher has returned,
\* every task has ended, no slot of the semaphore is held and nobody
\* waits for one; from then on no do_search call is started and no
\* "Searched ..." progress call is made.
CancelledForGood ==
    /\ [](ReturnedTimedOut =>
            /\ \A i \in Tasks : ts[i] \in Terminal
            /\ must_cancel = {}
            /\ sem_value = MAX_CONCURRENT_SEARCHES
            /\ \A k \in 1 .. Len(waiters) : ts[waiters[k]] = "cancelled")
    /\ [][ReturnedTimedOut =>
            /\ search_calls' = search_calls
            /\ notified' = notified
            /\ completed_count' = completed_count]_vars

\* execute has returned after an overall timeout that cancelled one task in
\* the queue and one in its search, after another had reported its
\* completion.
CancelledForGoodWitness ==
    /\ pc = "returned"
    /\ ReturnedTimedOut
    /\ Len(notified) = 1
    /\ \E i \in Tasks : ts[i] = "cancelled" /\ search_calls[i] = 0
    /\ \E i \in Tasks : ts[i] = "cancelled" /\ search_calls[i] = 1

\* Tasks whose _search_single_market call has returned its result.
FinishedSearch == { i \in Tasks : search_exit[i] = "result" }

\* C26: the k-th "Searched ..." progress call is made with
\* (k, len(markets)), whatever the order the searches finish in: the
\* counts are 1, 2, ... without duplicate or gap, never above
\* len(markets), and there is one call for each task whose search has
\* finished (none when no callback was given).
NotifiedInCountOrder ==
    /\ \A k \in 1 .. Len(notified) : notified[k] = << k, Len(markets) >>
    /\ Len(notified) <= Len(markets)
    /\ sink = "given" => Len(notified) = Cardinality(FinishedSearch)
    /\ sink = "given" => Len(notified) = completed_count
    /\ sink = "none" => notified = << >>

\* Every market of a full list was notified, a later market finished before
\* an earlier one, and one of the progress calls raised.
NotifiedInCountOrderWitness ==
    /\ Len(notified) = MaxRegions
    /\ overtaken
    /\ \E i \in Tasks : ts[i] = "failed"
    /\ \E i \in Tasks : ts[i] = "done"

\* The responses.create call of market i comes back after its task has
\* ended (with Timeout, or cancelled).
LateAnswer(i) == prov[i] = "running" /\ prov'[i] = "finished" /\ ts[i] \in Terminal

\* C27: a market whose timer fired before its responses.create call came
\* back keeps its Timeout: the late answer changes no result, aggregate or
\* response, and the market's entries carry no text and no citation
\* wherever they appear.
LateAnswerIgnored ==
    /\ [][\A i \in Tasks : LateAnswer(i) =>
            /\ rs' = rs
            /\ results' = results
            /\ aggregated' = aggregated
            /\ report' = report]_vars
    /\ [](\A i \in Tasks : MarketTimedOut(i) =>
            /\ rs[i].text = "" /\ rs[i].citations = << >>
            /\ Dispatched =>
                  /\ results[i].status = TIMEOUT
                  /\ results[i].text = "" /\ results[i].citations = << >>
            /\ aggregated # NoAggregate =>
                  /\ aggregated.results[i] = results[i]
                  /\ aggregated.total_citations =
                        AllCitations(SelectSeq(results, IsSuccess))
            /\ report.kind = "AnalysisResponse" =>
                  /\ report.market_results[i].status = TIMEOUT
                  /\ report.market_results[i].citation_count = 0
                  /\ report.citations = aggregated.total_citations)

\* The call of a market that timed out came back while other searches were
\* still under way, and the response execute returned lists the market as
\* timed out.
LateAnswerIgnoredWitness ==
    /\ pc = "returned"
    /\ ~OverallTimedOut
    /\ \E i \in Tasks :
          /\ MarketTimedOut(i)
          /\ prov[i] = "finished"
          /\ report.market_results[i].status = TIMEOUT
    /\ \E j \in Tasks : ProviderAnswered(j) /\ rs[j].status = SUCCESS

\* C28: the timer of a market runs from the moment its task holds a slot
\* and has called do_search.  A task without a slot has no search time and
\* no result however long it has queued, and a market given its own Timeout
\* was searched for MARKET_TIMEOUT_SECONDS, the time in the queue not
\* counted, with its responses.create call started.
TimerStartsWithSlot ==
    \A i \in Tasks :
        /\ ts[i] \in {"created", "waiting", "woken"} =>
              /\ age[i] = 0
              /\ search_calls[i] = 0
              /\ prov[i] = "idle"
              /\ rs[i] = NoResult
        /\ MarketTimedOut(i) =>
              /\ search_calls[i] = 1
              /\ prov[i] # "idle"
              /\ age[i] = MarketTicks
              /\ rs[i].execution_time_ms \in
                    { MarketTicks * TickMs + d : d \in MeasuredMs }
                    \cup { MARKET_TIMEOUT_SECONDS * 1000 + d : d \in MeasuredMs }

\* A market that queued for MARKET_TIMEOUT_SECONDS or longer was then
\* searched for its own MARKET_TIMEOUT_SECONDS before it was given Timeout.
TimerStartsWithSlotWitness ==
    \E i \in Tasks :
        /\ MarketTimedOut(i)
        /\ waited[i] >= MarketTicks
        /\ age[i] = MarketTicks
        /\ search_calls[i] = 1

(***************************************************************************)
(* Runs in projects with and without the search agent                      *)
(***************************************************************************)
\* execute is called without a progress callback in a project that has the
\* search agent or not, and whose agents.list() works or fails.
InitAgents ==
    /\ requested \in Requests
    /\ markets = DefaultedMarkets(requested)
    /\ sink = "none"
    /\ listing \in {"ok", "fails"}
    /\ agent_exists \in BOOLEAN
    /\ FreshRun

\* The steps of the searches, up to the return of gather.
NextSearches ==
    \/ Dispatch
    \/ \E i \in Tasks : TaskStart(i)
    \/ \E i \in Tasks : TaskResume(i)
    \/ \E i \in Tasks : ProviderReturns(i)
    \/ \E i \in Tasks : ProviderRaises(i)
    \/ \E i \in Tasks : MarketTimeout(i)
    \/ GatherDone

SpecAgents == InitAgents /\ [][NextSearches]_vars

\* C29: when agents.list() works, the tasks of one run create the search
\* agent at most once, and only if the project did not have it: a task
\* lists and creates in one step of the loop, so the next task to list
\* finds the agent.
SearchAgentCreatedOnce ==
    /\ [](listing = "ok" =>
            /\ agents_created <= 1
            /\ agents_created = 1 => agent_exists)
    /\ [][(listing = "ok" /\ agent_exists) =>
              agents_created' = agents_created]_vars

\* MAX_CONCURRENT_SEARCHES searches are under way at once in a project that
\* had no search agent, and one agent was created.
SearchAgentCreatedOnceWitness ==
    /\ listing = "ok"
    /\ agents_created = 1
    /\ Cardinality(Running) = MAX_CONCURRENT_SEARCHES
    /\ \A i \in Running : search_calls[i] = 1
    /\ \E i \in Tasks : ts[i] = "done"

\* execute was called without a market list or with an empty one.
NoMarketList == ~requested.passed \/ requested.markets = << >>

\* C30: called without markets, execute searches exactly one market,
\* search_config.market when one is configured and "en-US" otherwise, and
\* the results and the response are about that one market.
DefaultsToOneMarket ==
    NoMarketList =>
        /\ Tasks = {1}
        /\ markets[1] = IF requested.market \in {None, ""} THEN "en-US"
                        ELSE requested.market
        /\ search_calls[1] <= 1
        /\ Dispatched =>
              /\ Len(results) = 1
              /\ results[1].market = markets[1]
        /\ report.kind = "AnalysisResponse" =>
              /\ report.total_markets = 1
              /\ report.successful_count + report.failed_count = 1
              /\ Len(report.market_results) = 1
              /\ report.market_results[1].market = markets[1]

\* Called without a list and with an empty search_config.market, execute
\* has returned a response about "en-US" alone.
DefaultsToOneMarketWitness ==
    /\ ~requested.passed
    /\ requested.market = ""
    /\ pc = "returned"
    /\ search_calls = << 1 >>
    /\ report.market_results[1].market = "en-US"
    /\ report.market_results[1].status = SUCCESS

=============================================================================
